---- MODULE Spec2Model ----
(***************************************************************************)
(* Model of src/medic_cia.py: the retrying Hugging Face caller             *)
(* (call_huggingface_api_with_retry), the Streamlit handlers that use it   *)
(* (ANALYZE, the upload and simple-recorder handlers, the two text-input   *)
(* handlers), and the session state they share.                            *)
(*                                                                         *)
(* Time is counted in ticks: one time unit (second) is 2 * JitterSteps     *)
(* ticks, so that the jitter ceiling 0.5 is JitterSteps ticks and the      *)
(* continuous draw random.uniform(0, 0.5) is a choice in 0..JitterSteps.   *)
(***************************************************************************)
EXTENDS Integers, Sequences, FiniteSets, TLC

\* ---------------------------------------------------------------- bounds
\* resolution of the jitter draw: number of ticks in 0.5 time units
JitterSteps == 1
\* largest max_retries a direct caller of the function passes
MaxRetriesBound == 4
\* number of script runs (user interactions) of one session
MaxRuns == 2
\* audio frames kept in session state
MaxFrames == 1

\* ------------------------------------------------------ program constants
\* def call_huggingface_api_with_retry(..., max_retries=3)
DefaultMaxRetries == 3

\* ticks per time unit
Unit == 2 * JitterSteps
\* backoff_time = 1
InitialBackoff == 1 * Unit
\* random.uniform(0, 0.5), in ticks
JitterCeiling == JitterSteps
Jitter == 0..JitterCeiling

RECURSIVE Pow2(_)
Pow2(n) == IF n <= 0 THEN 1 ELSE 2 * Pow2(n - 1)

RECURSIVE SumSlept(_)
SumSlept(s) == IF s = <<>> THEN 0 ELSE Head(s).slept + SumSlept(Tail(s))

\* ------------------------------------------------------------ the upstream
API_URL_RECOGNITION == "recognition"
DIAGNOSTIC_MODEL_API == "diagnostic"

\* what an upstream answers: 200, 503 (model loading), permanent errors
Statuses == {200, 503, 404, 500}

\* response bodies, by the JSON shapes the parse expressions tell apart:
\* an object with a "text" field, an object without the field read, a list of
\* objects with "generated_text", an object with "generated_text", a list of
\* role/content objects, a body that is no JSON
RecognitionBodies ==
    { [shape |-> "obj_text",  val |-> "fever"],
      [shape |-> "obj_text",  val |-> ""],
      [shape |-> "obj_other", val |-> "loading"],
      [shape |-> "list_gen",  val |-> "flu"],
      [shape |-> "not_json",  val |-> "html"] }

DiagnosisBodies ==
    { [shape |-> "list_gen",  val |-> "flu"],
      [shape |-> "obj_gen",   val |-> "flu"],
      [shape |-> "list_chat", val |-> "flu"],
      [shape |-> "obj_other", val |-> "loading"],
      [shape |-> "not_json",  val |-> "html"] }

\* the bodies the endpoint of a call answers with
Bodies(a) == IF a = "recognition" THEN RecognitionBodies ELSE DiagnosisBodies

\* requests.exceptions.RequestException subclasses raised by requests.post
RequestExceptions == {"ConnectionError", "Timeout"}
\* exceptions raised by requests.post that are no RequestException
OtherExceptions == {"UnicodeEncodeError"}

\* a requests.Response
Response(s, b) == [cls |-> "Response", status_code |-> s, text |-> b]

NoResponse == [cls |-> "None", status_code |-> -1, text |-> [shape |-> "none", val |-> ""]]

\* class ErrorResponse: status_code = 0, text = str(e)
ErrorResponse(exc) ==
    [cls |-> "ErrorResponse", status_code |-> 0, text |-> [shape |-> "error", val |-> exc]]

\* class FinalErrorResponse: status_code = 500, text = "Maximum retries exceeded"
FinalErrorResponse ==
    [cls |-> "FinalErrorResponse", status_code |-> 500,
     text |-> [shape |-> "plain", val |-> "Maximum retries exceeded"]]

\* ------------------------------------------------------------------ state
VARIABLES
    \* st.session_state
    history, audio_frames, is_recording, frames_received, frame_counter,
    \* the script run: which handler runs, where it is, what it has shown
    runs, path, pc, text, ui, calls,
    \* one call of call_huggingface_api_with_retry
    callpc, api, payload, max_retries, retry_count, backoff_time, response, e,
    attempts, sleeps, returned,
    \* the locals of a call of the function made by another session
    peer

session == <<history, audio_frames, is_recording, frames_received, frame_counter>>
script  == <<runs, path, pc, text, ui, calls>>
call    == <<callpc, api, payload, max_retries, retry_count, backoff_time, response, e,
             attempts, sleeps, returned>>
vars    == <<session, script, call, peer>>


\* ------------------------------------------ call_huggingface_api_with_retry
\* mutant: the loop condition off by one
LoopCondition_OffByOne(rc, m) == rc < m - 1

\* while retry_count < max_retries
LoopCondition(rc, m) == rc < m

\* mutant: the retry test off by one
RetriesRemain_OffByOne(rc, m) == rc <= m

\* mutant: the retry test dropped, the call sleeps after every failure
RetriesRemain_Always(rc, m) == TRUE

\* if retry_count < max_retries (after retry_count += 1)
RetriesRemain(rc, m) == rc < m

\* mutant: every status but 200 is retried
ReturnsImmediately_Only200(s) == s = 200

\* mutant: the comparison reversed
ReturnsImmediately_Reversed(s) == s = 503

\* if response.status_code != 503: return response
ReturnsImmediately(s) == s # 503

\* mutant: the jitter scaled by the backoff, backoff * (1 + jitter)
SleepTime503_Scaled(b, j) == b + (b * j) \div Unit

\* sleep_time = backoff_time + random.uniform(0, 0.5)
SleepTime503(b, j) == b + j

\* time.sleep(backoff_time) in the RequestException branch
SleepTimeError(b) == b

\* mutant: the backoff never grows
NextBackoff_Constant(b) == b

\* backoff_time *= 2
NextBackoff(b) == b * 2

Attempt(k, s) == [kind |-> k, status_code |-> s]
Slept(a, b, t) == [after |-> a, base |-> b, slept |-> t]

InCall == callpc \in {"loop", "post", "sleep503", "sleepError"}

\* the function is entered: retry_count = 0, backoff_time = 1
Enter(a, p, m) ==
    /\ api' = a
    /\ payload' = p
    /\ max_retries' = m
    /\ retry_count' = 0
    /\ backoff_time' = InitialBackoff
    /\ response' = NoResponse
    /\ e' = "none"
    /\ attempts' = <<>>
    /\ sleeps' = <<>>
    /\ returned' = <<>>
    /\ callpc' = "loop"

\* no call is running and none has run in this script run
NoCall ==
    /\ api' = "none"
    /\ payload' = [kind |-> "none", val |-> ""]
    /\ max_retries' = 0
    /\ retry_count' = 0
    /\ backoff_time' = InitialBackoff
    /\ response' = NoResponse
    /\ e' = "none"
    /\ attempts' = <<>>
    /\ sleeps' = <<>>
    /\ returned' = <<>>
    /\ callpc' = "none"

\* the head of the while loop: another attempt, or past the loop the
\* statement "return FinalErrorResponse()"
LoopHead ==
    /\ callpc = "loop"
    /\ IF LoopCondition(retry_count, max_retries)
         THEN callpc' = "post" /\ UNCHANGED returned
         ELSE callpc' = "returned" /\ returned' = Append(returned, FinalErrorResponse)
    /\ UNCHANGED <<api, payload, max_retries, retry_count, backoff_time, response, e,
                   attempts, sleeps>>

\* the POST answers with a status other than 503: return response
PostReturns(s, b) ==
    /\ callpc = "post"
    /\ ReturnsImmediately(s)
    /\ response' = Response(s, b)
    /\ attempts' = Append(attempts, Attempt("status", s))
    /\ returned' = Append(returned, Response(s, b))
    /\ callpc' = "returned"
    /\ UNCHANGED <<api, payload, max_retries, retry_count, backoff_time, e, sleeps>>

\* mutant: the 503 branch forgets retry_count += 1
Post503_NotCounted(s, b) ==
    /\ callpc = "post"
    /\ ~(s # 503)
    /\ response' = Response(s, b)
    /\ attempts' = Append(attempts, [kind |-> "status", status_code |-> s])
    /\ callpc' = "sleep503"
    /\ UNCHANGED <<api, payload, max_retries, retry_count, backoff_time, e, sleeps, returned>>

\* the POST answers 503: count it; sleep and retry, or return it when exhausted
Post503(s, b) ==
    /\ callpc = "post"
    /\ ~ReturnsImmediately(s)
    /\ response' = Response(s, b)
    /\ attempts' = Append(attempts, Attempt("status", s))
    /\ retry_count' = retry_count + 1
    /\ IF RetriesRemain(retry_count + 1, max_retries)
         THEN callpc' = "sleep503" /\ UNCHANGED returned
         ELSE callpc' = "returned" /\ returned' = Append(returned, Response(s, b))
    /\ UNCHANGED <<api, payload, max_retries, backoff_time, e, sleeps>>

\* the POST raises a RequestException: count it; sleep and retry, or return
\* an ErrorResponse when exhausted
PostRequestException(exc) ==
    /\ callpc = "post"
    /\ e' = exc
    /\ attempts' = Append(attempts, Attempt("RequestException", 0))
    /\ retry_count' = retry_count + 1
    /\ IF RetriesRemain(retry_count + 1, max_retries)
         THEN callpc' = "sleepError" /\ UNCHANGED returned
         ELSE callpc' = "returned" /\ returned' = Append(returned, ErrorResponse(exc))
    /\ UNCHANGED <<api, payload, max_retries, backoff_time, response, sleeps>>

\* the POST raises an exception that is no RequestException: no except
\* clause of the function matches and it leaves the function
PostOtherException(exc) ==
    /\ callpc = "post"
    /\ attempts' = Append(attempts, Attempt(exc, 0))
    /\ callpc' = "raised"
    /\ UNCHANGED <<api, payload, max_retries, retry_count, backoff_time, response, e,
                   sleeps, returned>>

\* time.sleep(backoff_time + jitter); backoff_time *= 2.  The local response
\* is not read again before the next POST assigns it: the model forgets it.
Sleep503(j) ==
    /\ callpc = "sleep503"
    /\ sleeps' = Append(sleeps, Slept("503", backoff_time, SleepTime503(backoff_time, j)))
    /\ backoff_time' = NextBackoff(backoff_time)
    /\ response' = NoResponse
    /\ callpc' = "loop"
    /\ UNCHANGED <<api, payload, max_retries, retry_count, e, attempts, returned>>

\* time.sleep(backoff_time); backoff_time *= 2; the except clause ends and
\* unbinds e
SleepError ==
    /\ callpc = "sleepError"
    /\ sleeps' = Append(sleeps, Slept("RequestException", backoff_time,
                                      SleepTimeError(backoff_time)))
    /\ backoff_time' = NextBackoff(backoff_time)
    /\ e' = "none"
    /\ callpc' = "loop"
    /\ UNCHANGED <<api, payload, max_retries, retry_count, response, attempts, returned>>

\* ------------------------------------------------------- response parsing
Ok(v) == [ok |-> TRUE, val |-> v, exc |-> ""]
Raises(x) == [ok |-> FALSE, val |-> "", exc |-> x]

\* response.json().get("text", "Speech recognition failed")
GetText(r) ==
    IF r.cls # "Response" THEN Raises("AttributeError")
    ELSE IF r.text.shape = "not_json" THEN Raises("JSONDecodeError")
    ELSE IF r.text.shape \in {"list_gen", "list_chat"} THEN Raises("AttributeError")
    ELSE IF r.text.shape = "obj_text" THEN Ok(r.text.val)
    ELSE Ok("Speech recognition failed")

\* response.json()[0]['generated_text']
GeneratedText(r) ==
    IF r.cls # "Response" THEN Raises("AttributeError")
    ELSE IF r.text.shape = "not_json" THEN Raises("JSONDecodeError")
    ELSE IF r.text.shape = "list_gen" THEN Ok(r.text.val)
    ELSE Raises("KeyError")

\* ------------------------------------------------------------ what is shown
Show(l, w, s, m) == [level |-> l, what |-> w, status_code |-> s, msg |-> m]

\* st.error(f"... API error: {response.status_code}") and the response details
ApiError(w, r) ==
    << Show("error", w, r.status_code, ""),
       Show("error", "ServiceUnavailable", -1, ""),
       Show("code", "ResponseDetails", r.status_code, "") >>

\* {"message": ..., "is_user": ...}
Entry(m, u) == [message |-> m, is_user |-> u]

\* mutant: the two appends in the other order
AppendExchange_AssistantFirst(h, t, result) == h \o << Entry(result, FALSE), Entry(t, TRUE) >>

\* st.session_state.history.append(user entry); ....append(assistant entry)
AppendExchange(h, t, result) == h \o << Entry(t, TRUE), Entry(result, FALSE) >>

Data(bytes) == [kind |-> "data", val |-> bytes]
JsonInputs(t) == [kind |-> "json", val |-> t]

\* bytes of an uploaded file
AudioBytes == {"", "wav"}
\* what the user types
TypedTexts == {"", "cough"}

AudioPaths == {"analyze", "upload", "simple", "simple_upload"}
TextPaths == {"text_tab3", "text_fallback"}

Returned == returned[1]

\* a script run begins with a click: Streamlit reruns the script
BeginRun(p) ==
    /\ pc = "idle"
    /\ runs < MaxRuns
    /\ runs' = runs + 1
    /\ path' = p
    /\ calls' = <<>>

\* the script run ends
EndRun == pc' = "idle"

\* a widget other than the handlers' buttons reruns the script: what the last
\* run showed and the locals of its handler are gone
Rerun ==
    /\ path' = "none"
    /\ text' = ""
    /\ ui' = <<>>
    /\ calls' = <<>>
    /\ NoCall
    /\ UNCHANGED <<runs, pc>>


\* the log of the calls this script run has completed, as the handler saw them
Completed ==
    Append(calls, [api |-> api, cls |-> Returned.cls, status_code |-> Returned.status_code])

\* ------------------------------------------------- session state, recorder
\* AudioProcessor.__init__ when the user clicks START; the rerun sees playing
AudioProcessor_init ==
    /\ pc = "idle"
    /\ ~is_recording
    /\ audio_frames' = 0
    /\ frames_received' = FALSE
    /\ frame_counter' = 0
    /\ is_recording' = TRUE
    /\ Rerun
    /\ UNCHANGED history

\* AudioProcessor.recv, a frame with to_ndarray, between two script runs
recv ==
    /\ pc = "idle"
    /\ is_recording
    /\ audio_frames < MaxFrames
    /\ audio_frames' = audio_frames + 1
    /\ frames_received' = TRUE
    /\ frame_counter' = frame_counter + 1
    /\ UNCHANGED <<history, is_recording, script, call>>

\* the user clicks STOP: "Was recording but now stopped"
RecordingStopped ==
    /\ pc = "idle"
    /\ is_recording
    /\ is_recording' = FALSE
    /\ Rerun
    /\ UNCHANGED <<history, audio_frames, frames_received, frame_counter>>

\* if st.button("Reset Audio Capture")
ResetAudioCapture ==
    /\ pc = "idle"
    /\ audio_frames > 0 \/ frames_received \/ is_recording
    /\ audio_frames' = 0
    /\ frame_counter' = 0
    /\ frames_received' = FALSE
    /\ is_recording' = FALSE
    /\ Rerun
    /\ UNCHANGED history

\* ------------------------------------------------------------- the handlers
\* the except clause an exception of the running handler reaches
ExceptClause(p) ==
    CASE p = "upload" -> "ErrorProcessingAudio"
      [] p \in {"simple", "simple_upload"} -> "UnableToUseSimpleRecorder"
      [] p \in {"analyze", "text_tab3"} -> "WebRTCError"
      [] OTHER -> "Uncaught"

\* if st.button("ANALYZE"): frames present and saved, then the recognition call
ANALYZE_Click(saved) ==
    /\ BeginRun("analyze")
    /\ text' = ""
    /\ IF audio_frames > 0 /\ saved
         THEN /\ ui' = << Show("success", "AudioRecorded", -1, "") >>
              /\ Enter(API_URL_RECOGNITION, Data("wav"), DefaultMaxRetries)
              /\ pc' = "recognition"
         ELSE /\ ui' = << Show("warning",
                               IF audio_frames > 0 THEN "FailedToSaveAudio"
                                                   ELSE "NoAudioCaptured", -1, "") >>
              /\ NoCall
              /\ EndRun
    /\ UNCHANGED session

\* ANALYZE, after the recognition call: the text, then the diagnosis call
ANALYZE_Recognized ==
    /\ pc = "recognition" /\ path = "analyze" /\ callpc = "returned"
    /\ LET r == Returned
           g == GetText(r)
           failed == r.status_code # 200
           t == IF failed THEN "Speech recognition failed" ELSE g.val
       IN IF ~failed /\ ~g.ok
            THEN /\ ui' = Append(ui, Show("error", ExceptClause(path), -1, g.exc))
                 /\ calls' = Completed
                 /\ EndRun
                 /\ UNCHANGED <<text, call>>
            ELSE /\ ui' = (IF failed THEN ui \o ApiError("ApiError", r) ELSE ui)
                          \o << Show("write", "YouSaid", -1, t) >>
                 /\ text' = t
                 /\ calls' = Completed
                 /\ Enter(DIAGNOSTIC_MODEL_API, JsonInputs(t), DefaultMaxRetries)
                 /\ pc' = "diagnosis"
    /\ UNCHANGED <<session, runs, path>>

\* ANALYZE, after the diagnosis call: the result, shown and appended
ANALYZE_Diagnosed ==
    /\ pc = "diagnosis" /\ path = "analyze" /\ callpc = "returned"
    /\ LET r == Returned
           g == GeneratedText(r)
           failed == r.status_code # 200
           result == IF failed THEN "Diagnosis failed due to service unavailability."
                     ELSE IF g.ok THEN g.val
                     ELSE "Diagnosis failed."
       IN /\ ui' = (IF failed THEN ui \o ApiError("DiagnosisApiError", r) ELSE ui)
                   \o << Show("success", "Diagnosis", -1, result) >>
          /\ history' = AppendExchange(history, text, result)
    /\ calls' = Completed
    /\ EndRun
    /\ UNCHANGED <<audio_frames, is_recording, frames_received, frame_counter,
                   runs, path, text, call>>


\* "Analyze uploaded audio" / "Process uploaded audio": the recognition call
\* on uploaded_file.getvalue()
Upload_Click(p, bytes) ==
    /\ p \in {"upload", "simple_upload"}
    /\ BeginRun(p)
    /\ text' = ""
    /\ ui' = <<>>
    /\ Enter(API_URL_RECOGNITION, Data(bytes), DefaultMaxRetries)
    /\ pc' = "recognition"
    /\ UNCHANGED session

\* use_simple_audio_recorder: len(audio) > 0 and "Process this recording"
SimpleRecorder_Click ==
    /\ BeginRun("simple")
    /\ text' = ""
    /\ ui' = << Show("success", "AudioRecorded", -1, "") >>
    /\ Enter(API_URL_RECOGNITION, Data("wav"), DefaultMaxRetries)
    /\ pc' = "recognition"
    /\ UNCHANGED session

\* mutant: the status of the recognition call is shown but does not stop the
\* handler, as in ANALYZE
Audio_Recognized_NoStatusCheck ==
    /\ pc = "recognition" /\ path \in {"upload", "simple", "simple_upload"}
    /\ callpc = "returned"
    /\ LET r == Returned
           g == GetText(r)
           t == IF r.status_code # 200 \/ ~g.ok THEN "Speech recognition failed" ELSE g.val
       IN /\ ui' = (IF r.status_code # 200 THEN ui \o ApiError("ApiError", r) ELSE ui)
                   \o << Show("success", "YouSaid", -1, t) >>
          /\ text' = t
          /\ calls' = Completed
          /\ Enter(DIAGNOSTIC_MODEL_API, JsonInputs(t), DefaultMaxRetries)
          /\ pc' = "diagnosis"
    /\ UNCHANGED <<session, runs, path>>

\* upload and simple recorder, after the recognition call: on 200 the text
\* and the diagnosis call, otherwise the API error
Audio_Recognized ==
    /\ pc = "recognition" /\ path \in {"upload", "simple", "simple_upload"}
    /\ callpc = "returned"
    /\ LET r == Returned
           g == GetText(r)
       IN IF r.status_code = 200
            THEN IF g.ok
                   THEN /\ ui' = Append(ui, Show("success", "YouSaid", -1, g.val))
                        /\ text' = g.val
                        /\ calls' = Completed
                        /\ Enter(DIAGNOSTIC_MODEL_API, JsonInputs(g.val), DefaultMaxRetries)
                        /\ pc' = "diagnosis"
                   ELSE /\ ui' = Append(ui, Show("error", ExceptClause(path), -1, g.exc))
                        /\ calls' = Completed
                        /\ EndRun
                        /\ UNCHANGED <<text, call>>
            ELSE /\ ui' = ui \o ApiError("ApiError", r)
                 /\ calls' = Completed
                 /\ EndRun
                 /\ UNCHANGED <<text, call>>
    /\ UNCHANGED <<session, runs, path>>

\* the except clause that catches an exception of the diagnosis parse
DiagnosisExcept(p) ==
    IF p \in {"simple", "simple_upload"} THEN "DiagnosisFailed" ELSE ExceptClause(p)

\* upload and simple recorder, after the diagnosis call: on 200 the result,
\* shown and appended, otherwise the API error
Audio_Diagnosed ==
    /\ pc = "diagnosis" /\ path \in {"upload", "simple", "simple_upload"}
    /\ callpc = "returned"
    /\ LET r == Returned
           g == GeneratedText(r)
       IN IF r.status_code = 200
            THEN IF g.ok
                   THEN /\ ui' = Append(ui, Show("success", "Diagnosis", -1, g.val))
                        /\ history' = AppendExchange(history, text, g.val)
                   ELSE /\ ui' = Append(ui, Show("error", DiagnosisExcept(path), -1, g.exc))
                        /\ UNCHANGED history
            ELSE /\ ui' = ui \o (IF path = "simple"
                                    THEN SubSeq(ApiError("DiagnosisApiError", r), 1, 2)
                                    ELSE ApiError("DiagnosisApiError", r))
                 /\ UNCHANGED history
    /\ calls' = Completed
    /\ EndRun
    /\ UNCHANGED <<audio_frames, is_recording, frames_received, frame_counter,
                   runs, path, text, call>>

\* if text_input and st.button("Analyze Text"): the diagnosis call
Text_Click(p, t) ==
    /\ p \in TextPaths
    /\ t # ""
    /\ BeginRun(p)
    /\ text' = t
    /\ ui' = <<>>
    /\ Enter(DIAGNOSTIC_MODEL_API, JsonInputs(t), DefaultMaxRetries)
    /\ pc' = "diagnosis"
    /\ UNCHANGED session

\* text input, after the diagnosis call: the parse, whatever the status
Text_Diagnosed ==
    /\ pc = "diagnosis" /\ path \in TextPaths
    /\ callpc = "returned"
    /\ LET g == GeneratedText(Returned)
       IN IF g.ok
            THEN /\ ui' = Append(ui, Show("success", "Diagnosis", -1, g.val))
                 /\ history' = AppendExchange(history, text, g.val)
            ELSE /\ ui' = Append(ui, Show("error", "DiagnosisFailed", -1, g.exc))
                 /\ UNCHANGED history
    /\ calls' = Completed
    /\ EndRun
    /\ UNCHANGED <<audio_frames, is_recording, frames_received, frame_counter,
                   runs, path, text, call>>

\* the call raised: the exception reaches the except clause around the handler
Handler_Raised ==
    /\ pc \in {"recognition", "diagnosis"}
    /\ callpc = "raised"
    /\ ui' = Append(ui, Show("error", ExceptClause(path), -1,
                             attempts[Len(attempts)].kind))
    /\ EndRun
    /\ UNCHANGED <<session, runs, path, text, calls, call>>

\* ---------------------------------------------------------- specification
\* no other session is making a call
NoPeer ==
    [callpc |-> "none", max_retries |-> 0, retry_count |-> 0,
     backoff_time |-> InitialBackoff, attempts |-> <<>>, sleeps |-> <<>>,
     returned |-> <<>>]

Init ==
    /\ history = <<>>
    /\ audio_frames = 0
    /\ is_recording = FALSE
    /\ frames_received = FALSE
    /\ frame_counter = 0
    /\ runs = 0
    /\ path = "none"
    /\ pc = "idle"
    /\ text = ""
    /\ ui = <<>>
    /\ calls = <<>>
    /\ callpc = "none"
    /\ api = "none"
    /\ payload = [kind |-> "none", val |-> ""]
    /\ max_retries = 0
    /\ retry_count = 0
    /\ backoff_time = InitialBackoff
    /\ response = NoResponse
    /\ e = "none"
    /\ attempts = <<>>
    /\ sleeps = <<>>
    /\ returned = <<>>
    /\ peer = NoPeer

\* one step of call_huggingface_api_with_retry
CallNext ==
    \/ LoopHead /\ UNCHANGED <<session, script, peer>>
    \/ \E s \in Statuses, b \in Bodies(api) : PostReturns(s, b) /\ UNCHANGED <<session, script, peer>>
    \/ \E s \in Statuses, b \in Bodies(api) : Post503(s, b) /\ UNCHANGED <<session, script, peer>>
    \/ \E x \in RequestExceptions : PostRequestException(x) /\ UNCHANGED <<session, script, peer>>
    \/ \E x \in OtherExceptions : PostOtherException(x) /\ UNCHANGED <<session, script, peer>>
    \/ \E j \in Jitter : Sleep503(j) /\ UNCHANGED <<session, script, peer>>
    \/ SleepError /\ UNCHANGED <<session, script, peer>>

Next ==
    \/ CallNext
    \/ AudioProcessor_init /\ UNCHANGED peer
    \/ recv /\ UNCHANGED peer
    \/ RecordingStopped /\ UNCHANGED peer
    \/ ResetAudioCapture /\ UNCHANGED peer
    \/ \E saved \in BOOLEAN : ANALYZE_Click(saved) /\ UNCHANGED peer
    \/ ANALYZE_Recognized /\ UNCHANGED peer
    \/ ANALYZE_Diagnosed /\ UNCHANGED peer
    \/ \E p \in {"upload", "simple_upload"}, bytes \in AudioBytes : Upload_Click(p, bytes) /\ UNCHANGED peer
    \/ SimpleRecorder_Click /\ UNCHANGED peer
    \/ Audio_Recognized /\ UNCHANGED peer
    \/ Audio_Diagnosed /\ UNCHANGED peer
    \/ \E p \in TextPaths, t \in TypedTexts : Text_Click(p, t) /\ UNCHANGED peer
    \/ Text_Diagnosed /\ UNCHANGED peer
    \/ Handler_Raised /\ UNCHANGED peer

\* the session: the handlers and the calls they make
Spec == Init /\ [][Next]_vars

\* the history after k interactions in which a typed text was diagnosed
RECURSIVE EarlierExchanges(_)
EarlierExchanges(k) ==
    IF k = 0 THEN <<>>
    ELSE EarlierExchanges(k - 1) \o << Entry("cough", TRUE), Entry("flu", FALSE) >>

\* the last interaction of a session: each earlier one was a typed text that
\* was diagnosed, or one that left the history as it was
InteractionInit ==
    /\ history \in { EarlierExchanges(k) : k \in 0..(MaxRuns - 1) }
    /\ audio_frames = 0
    /\ is_recording = FALSE
    /\ frames_received = FALSE
    /\ frame_counter = 0
    /\ runs = MaxRuns - 1
    /\ path = "none"
    /\ pc = "idle"
    /\ text = ""
    /\ ui = <<>>
    /\ calls = <<>>
    /\ callpc = "none"
    /\ api = "none"
    /\ payload = [kind |-> "none", val |-> ""]
    /\ max_retries = 0
    /\ retry_count = 0
    /\ backoff_time = InitialBackoff
    /\ response = NoResponse
    /\ e = "none"
    /\ attempts = <<>>
    /\ sleeps = <<>>
    /\ returned = <<>>
    /\ peer = NoPeer

InteractionSpec == InteractionInit /\ [][Next]_vars

\* the function alone, called with any max_retries in 0..MaxRetriesBound
CallerInit ==
    /\ history = <<>>
    /\ audio_frames = 0
    /\ is_recording = FALSE
    /\ frames_received = FALSE
    /\ frame_counter = 0
    /\ runs = 0
    /\ path = "none"
    /\ pc = "call"
    /\ text = ""
    /\ ui = <<>>
    /\ calls = <<>>
    /\ callpc = "loop"
    /\ api \in {API_URL_RECOGNITION, DIAGNOSTIC_MODEL_API}
    /\ payload = IF api = API_URL_RECOGNITION THEN Data("wav") ELSE JsonInputs("cough")
    /\ max_retries \in 0..MaxRetriesBound
    /\ retry_count = 0
    /\ backoff_time = InitialBackoff
    /\ response = NoResponse
    /\ e = "none"
    /\ attempts = <<>>
    /\ sleeps = <<>>
    /\ returned = <<>>
    /\ peer = NoPeer

CallerSpec == CallerInit /\ [][CallNext]_vars

\* ------------------------------- the same function, called by another session
\* what a call leaves of the response it returns: its class and status
Outcome(r) == [cls |-> r.cls, status_code |-> r.status_code]

\* the head of the while loop of the other session's call
Peer_LoopHead ==
    /\ peer.callpc = "loop"
    /\ peer' = IF LoopCondition(peer.retry_count, peer.max_retries)
                 THEN [peer EXCEPT !.callpc = "post"]
                 ELSE [peer EXCEPT !.callpc = "returned",
                                   !.returned = Append(@, Outcome(FinalErrorResponse))]
    /\ UNCHANGED <<session, script, call>>

\* its POST answers with a status other than 503: return response
Peer_PostReturns(s) ==
    /\ peer.callpc = "post"
    /\ ReturnsImmediately(s)
    /\ peer' = [peer EXCEPT !.attempts = Append(@, Attempt("status", s)),
                            !.returned = Append(@, Outcome(Response(s, ""))),
                            !.callpc = "returned"]
    /\ UNCHANGED <<session, script, call>>

\* its POST answers 503
Peer_Post503(s) ==
    /\ peer.callpc = "post"
    /\ ~ReturnsImmediately(s)
    /\ peer' = IF RetriesRemain(peer.retry_count + 1, peer.max_retries)
                 THEN [peer EXCEPT !.attempts = Append(@, Attempt("status", s)),
                                   !.retry_count = @ + 1,
                                   !.callpc = "sleep503"]
                 ELSE [peer EXCEPT !.attempts = Append(@, Attempt("status", s)),
                                   !.retry_count = @ + 1,
                                   !.returned = Append(@, Outcome(Response(s, ""))),
                                   !.callpc = "returned"]
    /\ UNCHANGED <<session, script, call>>

\* its POST raises a RequestException
Peer_PostRequestException(exc) ==
    /\ peer.callpc = "post"
    /\ peer' = IF RetriesRemain(peer.retry_count + 1, peer.max_retries)
                 THEN [peer EXCEPT !.attempts = Append(@, Attempt("RequestException", 0)),
                                   !.retry_count = @ + 1,
                                   !.callpc = "sleepError"]
                 ELSE [peer EXCEPT !.attempts = Append(@, Attempt("RequestException", 0)),
                                   !.retry_count = @ + 1,
                                   !.returned = Append(@, Outcome(ErrorResponse(exc))),
                                   !.callpc = "returned"]
    /\ UNCHANGED <<session, script, call>>

\* its POST raises an exception that is no RequestException
Peer_PostOtherException(exc) ==
    /\ peer.callpc = "post"
    /\ peer' = [peer EXCEPT !.attempts = Append(@, Attempt(exc, 0)),
                            !.callpc = "raised"]
    /\ UNCHANGED <<session, script, call>>

\* mutant: backoff_time is one module-level value all calls read and double
Peer_Sleep503_Shared(j) ==
    /\ peer.callpc = "sleep503"
    /\ peer' = [peer EXCEPT !.sleeps = Append(@, [after |-> "503", base |-> backoff_time,
                                                  slept |-> backoff_time + j]),
                            !.callpc = "loop"]
    /\ backoff_time' = backoff_time * 2
    /\ UNCHANGED <<session, script, callpc, api, payload, max_retries, retry_count,
                   response, e, attempts, sleeps, returned>>

\* its time.sleep(backoff_time + jitter); backoff_time *= 2
Peer_Sleep503(j) ==
    /\ peer.callpc = "sleep503"
    /\ peer' = [peer EXCEPT !.sleeps = Append(@, Slept("503", peer.backoff_time,
                                                       SleepTime503(peer.backoff_time, j))),
                            !.backoff_time = NextBackoff(@),
                            !.callpc = "loop"]
    /\ UNCHANGED <<session, script, call>>

\* its time.sleep(backoff_time); backoff_time *= 2
Peer_SleepError ==
    /\ peer.callpc = "sleepError"
    /\ peer' = [peer EXCEPT !.sleeps = Append(@, Slept("RequestException", peer.backoff_time,
                                                       SleepTimeError(peer.backoff_time))),
                            !.backoff_time = NextBackoff(@),
                            !.callpc = "loop"]
    /\ UNCHANGED <<session, script, call>>

\* one step of the other session's call
PeerNext ==
    \/ Peer_LoopHead
    \/ \E s \in Statuses : Peer_PostReturns(s)
    \/ \E s \in Statuses : Peer_Post503(s)
    \/ \E x \in RequestExceptions : Peer_PostRequestException(x)
    \/ \E x \in OtherExceptions : Peer_PostOtherException(x)
    \/ \E j \in Jitter : Peer_Sleep503(j)
    \/ Peer_SleepError

\* two sessions have each entered the function with the default max_retries
ConcurrentInit ==
    /\ history = <<>>
    /\ audio_frames = 0
    /\ is_recording = FALSE
    /\ frames_received = FALSE
    /\ frame_counter = 0
    /\ runs = 0
    /\ path = "none"
    /\ pc = "call"
    /\ text = ""
    /\ ui = <<>>
    /\ calls = <<>>
    /\ callpc = "loop"
    /\ api \in {API_URL_RECOGNITION, DIAGNOSTIC_MODEL_API}
    /\ payload = IF api = API_URL_RECOGNITION THEN Data("wav") ELSE JsonInputs("cough")
    /\ max_retries = DefaultMaxRetries
    /\ retry_count = 0
    /\ backoff_time = InitialBackoff
    /\ response = NoResponse
    /\ e = "none"
    /\ attempts = <<>>
    /\ sleeps = <<>>
    /\ returned = <<>>
    /\ peer = [NoPeer EXCEPT !.callpc = "loop", !.max_retries = DefaultMaxRetries]

\* the calls of two sessions, interleaved step by step
ConcurrentNext ==
    \/ CallNext
    \/ PeerNext

ConcurrentSpec == ConcurrentInit /\ [][ConcurrentNext]_vars


\* ------------------------------------------------------------ the claims
Is503(a) == a.kind = "status" /\ a.status_code = 503
Is200(a) == a.kind = "status" /\ a.status_code = 200
IsPermanent(a) == a.kind = "status" /\ a.status_code \notin {200, 503}
IsNetworkError(a) == a.kind = "RequestException"
IsRetryable(a) == Is503(a) \/ IsNetworkError(a)
\* every attempt so far ended in a status or a network error
OnlyStatusesAndNetworkErrors ==
    \A i \in 1..Len(attempts) : attempts[i].kind \in {"status", "RequestException"}
Last(q) == q[Len(q)]

\* C1: for max_retries >= 1 and upstream outcomes that are statuses or network
\* errors, a call makes at most max_retries POSTs, every POST but the last
\* ended in a retryable failure (no POST follows a 200 or a non-503 status),
\* the call has returned exactly when it holds its one outcome, and while it
\* runs the retry budget is not used up and a next step exists, so that it
\* ends after at most max_retries attempts.
C1_OneOutcomeWithinBudget ==
    (max_retries >= 1 /\ OnlyStatusesAndNetworkErrors) =>
        /\ Len(attempts) <= max_retries
        /\ \A i \in 1..(Len(attempts) - 1) : IsRetryable(attempts[i])
        /\ Len(returned) <= 1
        /\ (callpc = "returned") <=> (Len(returned) = 1)
        /\ callpc = "returned" => ~IsRetryable(Last(attempts)) \/ Len(attempts) = max_retries
        /\ InCall => /\ retry_count < max_retries
                     /\ retry_count = Len(attempts)
                     /\ ENABLED CallNext

\* a call of budget 3 that returned at its third POST after a 503 and a
\* network error
C1_Witness ==
    /\ callpc = "returned"
    /\ max_retries = 3
    /\ Len(attempts) = 3
    /\ Is503(attempts[1])
    /\ IsNetworkError(attempts[2])
    /\ Is200(attempts[3])
    /\ Len(returned) = 1

\* C2: when each of the first max_retries attempts is a retryable failure, the
\* call has returned after exactly max_retries POSTs; after a last 503 it
\* returns that response (status 503, its body), after a last network error
\* an outcome of status 0 whose body is the description of that error.
C2_ExhaustedBudget ==
    (/\ max_retries >= 1
     /\ Len(attempts) >= max_retries
     /\ \A i \in 1..max_retries : IsRetryable(attempts[i])) =>
        /\ callpc = "returned"
        /\ Len(attempts) = max_retries
        /\ Len(returned) = 1
        /\ Is503(Last(attempts)) =>
              /\ Returned.status_code = 503
              /\ Returned = response
        /\ IsNetworkError(Last(attempts)) =>
              /\ Returned.cls = "ErrorResponse"
              /\ Returned.text = [shape |-> "error", val |-> e]
              /\ e \in RequestExceptions

\* a call of budget 3 exhausted by a 503, a network error and a last 503
C2_Witness ==
    /\ callpc = "returned"
    /\ max_retries = 3
    /\ Len(attempts) = 3
    /\ Is503(attempts[1])
    /\ IsNetworkError(attempts[2])
    /\ Is503(attempts[3])
    /\ Returned.text.shape = "obj_other"

\* C3: when the first attempt answers 200, the call makes exactly one POST,
\* sleeps never, and returns that response.
C3_FirstAttempt200 ==
    (Len(attempts) >= 1 /\ Is200(attempts[1])) =>
        /\ Len(attempts) = 1
        /\ sleeps = <<>>
        /\ callpc = "returned"
        /\ returned = << response >>
        /\ response.cls = "Response"
        /\ response.status_code = 200

\* a first attempt that answered 200 although the budget allowed more
C3_Witness ==
    /\ callpc = "returned"
    /\ max_retries >= 2
    /\ Len(attempts) = 1
    /\ Is200(attempts[1])
    /\ Returned.text.shape = "list_gen"

\* C4: an attempt that answers a permanent error status (not 200, not 503) is
\* the last one: the call returns that response, status and body, with no
\* sleep after it; the first attempt then is the only POST and nothing sleeps.
C4_PermanentErrorReturns ==
    \A i \in 1..Len(attempts) :
        IsPermanent(attempts[i]) =>
            /\ i = Len(attempts)
            /\ callpc = "returned"
            /\ returned = << response >>
            /\ response.cls = "Response"
            /\ response.status_code = attempts[i].status_code
            /\ Len(sleeps) = i - 1
            /\ (i = 1 => Len(attempts) = 1 /\ sleeps = <<>>)

\* a first attempt that answered 404 although the budget allowed more
C4_Witness ==
    /\ callpc = "returned"
    /\ max_retries >= 2
    /\ Len(attempts) = 1
    /\ attempts[1] = Attempt("status", 404)
    /\ Returned.status_code = 404

\* C5: when the first k attempts answer 503 and attempt k+1 answers 200, with
\* 1 <= k < max_retries, the call returns the 200 response after exactly k+1
\* POSTs, and the time slept is at least 2^k - 1 and at most 2^k - 1 + k * 0.5
\* time units.
C5_SuccessAfter503s ==
    \A k \in 1..(Len(attempts) - 1) :
        (/\ k < max_retries
         /\ \A i \in 1..k : Is503(attempts[i])
         /\ Is200(attempts[k + 1])) =>
            /\ callpc = "returned"
            /\ Len(attempts) = k + 1
            /\ returned = << response >>
            /\ response.status_code = 200
            /\ Len(sleeps) = k
            /\ SumSlept(sleeps) >= (Pow2(k) - 1) * Unit
            /\ SumSlept(sleeps) <= (Pow2(k) - 1) * Unit + k * JitterCeiling

\* two 503s, then 200, with some jitter slept
C5_Witness ==
    /\ callpc = "returned"
    /\ Len(attempts) = 3
    /\ Is503(attempts[1])
    /\ Is503(attempts[2])
    /\ Is200(attempts[3])
    /\ SumSlept(sleeps) > 3 * Unit

\* C6: the n-th sleep of a call has base delay 2^(n-1) time units, whether it
\* follows a 503 or a network error; it lasts at least the base and at most
\* the base plus 0.5; the base never decreases from one sleep to the next;
\* and the backoff the call holds is the base of the sleep to come.
C6_BackoffDoubles ==
    /\ \A n \in 1..Len(sleeps) :
          /\ sleeps[n].base = Pow2(n - 1) * Unit
          /\ sleeps[n].slept >= sleeps[n].base
          /\ sleeps[n].slept <= sleeps[n].base + JitterCeiling
          /\ n > 1 => sleeps[n].base >= sleeps[n - 1].base
          /\ sleeps[n].after = (IF Is503(attempts[n]) THEN "503" ELSE "RequestException")
          /\ IsRetryable(attempts[n])
    /\ backoff_time = Pow2(Len(sleeps)) * Unit

\* three sleeps, after a network error, a 503 and a network error
C6_Witness ==
    /\ Len(sleeps) = 3
    /\ sleeps[1].after = "RequestException"
    /\ sleeps[2].after = "503"
    /\ sleeps[3].after = "RequestException"
    /\ sleeps[2].slept > sleeps[2].base

\* the sleep of a retry, after a 503 or after a network error
SleepStep == ((\E j \in Jitter : Sleep503(j)) \/ SleepError) /\ UNCHANGED <<session, script, peer>>

\* C7: before a retry, after a 503 as after a network error, the wait is the
\* backoff plus a uniform jitter: every wait from backoff to backoff + 0.5 can
\* be the one taken.
C7_SameJitterSchedule ==
    callpc \in {"sleep503", "sleepError"} =>
        \A j \in Jitter : ENABLED (SleepStep /\ Last(sleeps').slept = backoff_time + j)

\* C8: a call never ends by an exception that leaves the function.
C8_NeverRaises == callpc # "raised"


\* the script run has ended after a diagnosis call that did not return 200
DiagnosisFailed ==
    /\ pc = "idle"
    /\ calls # <<>>
    /\ Last(calls).api = DIAGNOSTIC_MODEL_API
    /\ Last(calls).status_code # 200

\* C9: in every entry path, a diagnosis call that ended in a failure (a status
\* other than 200, or the status 0 of a network error) is shown as a failed
\* diagnosis carrying that status, and nothing is shown as a diagnosis.
C9_DiagnosisFailureSurfaced ==
    DiagnosisFailed =>
        /\ \E i \in 1..Len(ui) :
              /\ ui[i].level = "error"
              /\ ui[i].what \in {"DiagnosisApiError", "DiagnosisFailed"}
              /\ ui[i].status_code = Last(calls).status_code
        /\ \A i \in 1..Len(ui) : ~(ui[i].level = "success" /\ ui[i].what = "Diagnosis")

\* the handler is about to use the result of a diagnosis call, and every call
\* of the script run returned 200 and was parsed without an exception
RunSucceeded ==
    /\ pc = "diagnosis"
    /\ callpc = "returned"
    /\ Returned.status_code = 200
    /\ GeneratedText(Returned).ok
    /\ \A i \in 1..Len(calls) : calls[i].status_code = 200

\* C10: in the audio handlers, a step appends the recognized text and the
\* diagnosis to the conversation history if and only if the transcription and
\* the diagnosis call both returned 200 and were parsed; after a failed
\* transcription or a failed diagnosis nothing is appended.
C10_HistoryIffSuccess ==
    [][ (path \in AudioPaths) => ((history' # history) <=> RunSucceeded) ]_vars

\* the handler is about to read a recognition answer of status 200 whose body
\* is a JSON object without the "text" field
MissingTextField ==
    /\ pc = "recognition"
    /\ callpc = "returned"
    /\ Returned.cls = "Response"
    /\ Returned.status_code = 200
    /\ Returned.text.shape = "obj_other"

\* C11: when the transcription call returns 200 and the body lacks the text
\* field, the handler ends the run with an error shown, the recognized text is
\* not a default put in the field's place, and no diagnosis call is entered.
C11_MissingTextFieldReported ==
    [][ MissingTextField =>
          /\ pc' = "idle"
          /\ Last(ui').level = "error"
          /\ text' # "Speech recognition failed"
          /\ api' # DIAGNOSTIC_MODEL_API ]_vars

\* C12: in every audio entry path, a transcription call whose audio byte
\* buffer is empty issues no POST.
C12_EmptyAudioNoPost ==
    (api = API_URL_RECOGNITION /\ payload = Data("")) => Len(attempts) = 0

\* C13: in every path that issues a diagnosis request, typed text or text of
\* a preceding transcription, a diagnosis call whose text is empty issues no
\* POST.
C13_EmptyTextNoPost ==
    (api = DIAGNOSTIC_MODEL_API /\ payload = JsonInputs("")) => Len(attempts) = 0

\* the handler is about to read a diagnosis answer of status 200 whose body is
\* JSON
Diagnosis200 ==
    /\ pc = "diagnosis"
    /\ callpc = "returned"
    /\ Returned.cls = "Response"
    /\ Returned.status_code = 200
    /\ Returned.text.shape \in {"list_gen", "obj_gen", "list_chat", "obj_other"}

\* C14: a diagnosis body of status 200 is mapped to one message: the
\* generated text of the first object of a list, the generated text of a
\* single object, the first assistant content of a role/content list; a body
\* of no such shape is shown as a rendering of the body, never as an error or
\* a failed diagnosis.
C14_ShapesNormalized ==
    [][ Diagnosis200 =>
          /\ Last(ui').level = "success"
          /\ Last(ui').what = "Diagnosis"
          /\ IF Returned.text.shape = "obj_other"
               THEN Last(ui').msg \notin {"Diagnosis failed.", ""}
               ELSE Last(ui').msg = Returned.text.val ]_vars

\* the locals of this session's call, its outcome by class and status
OwnCall ==
    [callpc |-> callpc, max_retries |-> max_retries, retry_count |-> retry_count,
     backoff_time |-> backoff_time, attempts |-> attempts, sleeps |-> sleeps,
     returned |-> [i \in 1..Len(returned) |-> Outcome(returned[i])]]

\* what a call returns when the attempt a is its last
OutcomeAfter(a) ==
    IF a.kind = "status" THEN [cls |-> "Response", status_code |-> a.status_code]
    ELSE [cls |-> "ErrorResponse", status_code |-> 0]

\* the attempt counter, the end of the call, the backoff sequence and the
\* outcome of the call c are those its own upstream outcomes determine
DependsOnOwnOutcomes(c) ==
    LET n == Len(c.attempts)
        failures == Cardinality({i \in 1..n : IsRetryable(c.attempts[i])})
        ended == n > 0 /\ (~IsRetryable(c.attempts[n]) \/ n = c.max_retries)
    IN /\ c.retry_count = failures
       /\ (c.callpc \in {"returned", "raised"}) <=> ended
       /\ Len(c.sleeps) \in {failures - 1, failures}
       /\ ended /\ IsRetryable(c.attempts[n]) => Len(c.sleeps) = failures - 1
       /\ \A k \in 1..Len(c.sleeps) : c.sleeps[k].base = Pow2(k - 1) * Unit
       /\ c.backoff_time = Pow2(Len(c.sleeps)) * Unit
       /\ c.callpc = "returned" => c.returned = << OutcomeAfter(c.attempts[n]) >>
       /\ c.callpc # "returned" => c.returned = <<>>

C16_OneCallAtATime ==
    /\ [](InCall => /\ pc \in {"recognition", "diagnosis"}
                    /\ (pc = "recognition") <=> (api = API_URL_RECOGNITION)
                    /\ (pc = "diagnosis") <=> (api = DIAGNOSTIC_MODEL_API))
    /\ [][ (pc' = "diagnosis" /\ pc # "diagnosis" /\ path' \in AudioPaths) =>
             /\ pc = "recognition"
             /\ api = API_URL_RECOGNITION
             /\ callpc = "returned"
             /\ path' \in {"upload", "simple", "simple_upload"} =>
                   Returned.status_code = 200 ]_vars

\* the upload handler waits for its diagnosis call, which a first 503 makes
\* retry, entered after a transcription that returned 200
C16_Witness ==
    /\ path = "upload"
    /\ pc = "diagnosis"
    /\ callpc = "post"
    /\ api = DIAGNOSTIC_MODEL_API
    /\ Len(attempts) = 1
    /\ calls = << [api |-> API_URL_RECOGNITION, cls |-> "Response", status_code |-> 200] >>
    /\ text = "fever"

\* the call has ended, by a return or by an exception
Ended == callpc \in {"returned", "raised"}

\* every sleep lies between two POSTs: a sleep begins only while the budget
\* leaves a POST to come, there are never more sleeps than POSTs, none follows
\* the POST that uses up the budget, and a call that has ended has slept once
\* less than it has POSTed
SleepsBetweenAttempts ==
    /\ callpc \in {"sleep503", "sleepError"} =>
          /\ retry_count < max_retries
          /\ Len(sleeps) = Len(attempts) - 1
    /\ Len(sleeps) <= Len(attempts)
    /\ (callpc = "loop" /\ Len(sleeps) > 0) => retry_count < max_retries
    /\ (Len(attempts) > 0 /\ Len(attempts) >= max_retries) =>
          Ended /\ Len(sleeps) = max_retries - 1
    /\ Ended => Len(sleeps) = Len(attempts) - 1

UserAssistantPairs ==
    /\ Len(history) % 2 = 0
    /\ \A i \in 1..Len(history) : history[i].is_user = ((i - 1) % 2 = 0)

\* a step leaves the history as it is or appends to it a user entry
\* immediately followed by an assistant entry
AppendsOneExchange ==
    \/ history' = history
    \/ /\ Len(history') = Len(history) + 2
       /\ SubSeq(history', 1, Len(history)) = history
       /\ history'[Len(history) + 1].is_user
       /\ ~history'[Len(history) + 2].is_user

\* C18: the history is only ever extended by a user entry immediately
\* followed by an assistant entry: its length is even, the entries at even
\* positions are the user's and those at odd positions the assistant's, and
\* no step modifies or removes an entry it holds.
C18_HistoryAppendOnlyPairs ==
    /\ []UserAssistantPairs
    /\ [][AppendsOneExchange]_vars

\* two exchanges, the first typed and the second spoken
C18_Witness ==
    /\ Len(history) = 4
    /\ history[1] = Entry("cough", TRUE)
    /\ history[2] = Entry("flu", FALSE)
    /\ history[3] = Entry("fever", TRUE)
    /\ ~history[4].is_user
    /\ path \in AudioPaths

\* C19: for max_retries >= 1 the return placed after the retry loop is never
\* reached: at the head of the loop the condition always holds, every call
\* returns from inside the loop after at least one POST, no outcome is the
\* fabricated one, and an outcome of status 500 is the response of an upstream
\* that answered 500.
C19_FallbackNeverReached ==
    max_retries >= 1 =>
        /\ callpc = "loop" => retry_count < max_retries
        /\ \A i \in 1..Len(returned) : returned[i].cls # "FinalErrorResponse"
        /\ callpc = "returned" =>
              /\ Len(attempts) >= 1
              /\ Returned.status_code = 500 =>
                    /\ Returned.cls = "Response"
                    /\ Last(attempts) = Attempt("status", 500)
                    /\ Returned.text \in Bodies(api)

\* a call of budget 2 or more that returned the 500 its upstream answered at
\* the second attempt
C19_Witness ==
    /\ max_retries >= 2
    /\ callpc = "returned"
    /\ Len(attempts) = 2
    /\ IsRetryable(attempts[1])
    /\ attempts[2] = Attempt("status", 500)
    /\ Returned.status_code = 500
    /\ Returned.cls = "Response"

====
